---- MODULE Spec2Model ----
(***************************************************************************)
(* A model of convert.py: the probe classifier check_hevc with its         *)
(* metadata extractors, the ProgressNotifier byte parser driven by         *)
(* call_ffmpeg, and the batch driver main.                                 *)
(*                                                                         *)
(* Representation of Python values:                                        *)
(*   - a real number of seconds is an integer number of milliseconds;      *)
(*   - a frame rate is an integer number of thousandths of a frame/second; *)
(*   - a clock string 'H:M:S.ddd' is <<h, m, s, digits>>, '' is <<>>;      *)
(*   - a missing dictionary key / None is NoVal;                           *)
(*   - a raised exception is the value Raised (or a field raised = TRUE).  *)
(***************************************************************************)
EXTENDS Integers, Sequences, FiniteSets, TLC

\* ------------------------------------------------------------------ bounds
MaxStreams == 3

\* --------------------------------------------------------- python values
NoVal == -1
Raised == -2

NoRate == [kind |-> "none", a |-> 0, b |-> 1]
Ratio(a, b) == [kind |-> "ratio", a |-> a, b |-> b]
IntRate(a) == [kind |-> "int", a |-> a, b |-> 1]

\* round(x, 3) / round(x) of the quotient n/d: round half to even
RoundDiv(n, d) ==
  LET q == n \div d
      r == n % d
  IN IF 2 * r > d THEN q + 1
     ELSE IF 2 * r < d THEN q
     ELSE IF q % 2 = 0 THEN q ELSE q + 1

\* str(sec).split('.')[1][:3]: the decimals of a float, at most three,
\* as Python prints them (no trailing zeros, at least one digit)
FracDigits(ms) ==
  LET r == ms % 1000
  IN IF r = 0 THEN <<0>>
     ELSE IF r % 100 = 0 THEN <<r \div 100>>
     ELSE IF r % 10 = 0 THEN <<r \div 100, (r \div 10) % 10>>
     ELSE <<r \div 100, (r \div 10) % 10, r % 10>>

sec_hum(ms) ==
  LET sec == ms \div 1000
      r == sec % 3600
  IN <<sec \div 3600, r \div 60, r % 60, FracDigits(ms)>>

\* float('SS.ddd') in milliseconds, decimals beyond the third dropped
FracMs(ds) ==
  (IF Len(ds) >= 1 THEN ds[1] * 100 ELSE 0)
  + (IF Len(ds) >= 2 THEN ds[2] * 10 ELSE 0)
  + (IF Len(ds) >= 3 THEN ds[3] ELSE 0)

\* d.split(':', 3) unpacked into three names: '' raises ValueError
hms2sec(d) ==
  IF d = <<>> THEN Raised
  ELSE d[1] * 3600000 + d[2] * 60000 + d[3] * 1000 + FracMs(d[4])

\* ------------------------------------------------------- stream records
\* tags.get(key, default)
TagGet(tags, key, default) == IF key \in DOMAIN tags THEN tags[key] ELSE default

NoTags == [has |-> FALSE, map |-> <<>>]
Tags(m) == [has |-> TRUE, map |-> m]
\* `if (tags := d.get('tags'))`: present and not the empty dict
TagsTruthy(t) == t.has /\ DOMAIN t.map # {}

NoFormat == [has |-> FALSE, bit_rate |-> 0, duration |-> NoVal]

\* a rate string parsed as the extractors parse it: 'a/b' -> a/b, 'a' -> a;
\* the value in thousandths, Raised on a zero denominator
RateMilli(r) ==
  IF r.kind = "ratio"
    THEN IF r.b = 0 THEN Raised ELSE RoundDiv(r.a * 1000, r.b)
    ELSE r.a * 1000

calc_fps(d, duration) ==
  IF d.r_frame_rate.kind = "none"
    THEN IF d.avg_frame_rate.kind = "none"
      THEN IF d.tags.has
        THEN LET _frames == TagGet(d.tags.map, "NUMBER_OF_FRAMES-eng", 0)
             IN IF _frames # 0 /\ duration # 0
                  THEN RoundDiv(_frames * 1000 * 1000, duration)
                  ELSE NoVal
        ELSE NoVal
      ELSE RateMilli(d.avg_frame_rate)
    ELSE RateMilli(d.r_frame_rate)

calc_bitrate(d, a, file_size, duration) ==
  LET b1 == IF a.format.has THEN a.format.bit_rate ELSE 0
      b2 == IF b1 = 0 /\ TagsTruthy(d.tags)
              THEN TagGet(d.tags.map, "BPS-eng", 0) ELSE b1
      dur == IF duration = 0 /\ d.duration_ts # NoVal /\ d.time_base.kind # "none"
               THEN IF d.time_base.b = 0 THEN Raised
                    ELSE (d.duration_ts * d.time_base.a * 1000) \div d.time_base.b
               ELSE duration
  IN IF b2 # 0 THEN b2
     ELSE IF dur = Raised THEN Raised
     ELSE IF dur # 0
       \* file_size * 8 / duration: a float, non-zero for a non-empty file
       THEN LET q == (file_size * 8 * 1000) \div dur IN IF q = 0 THEN 1 ELSE q
       ELSE 0

\* int(int(_a) / int(_b)) or int(_frm_per_sec) of avg_frame_rate (default '0')
FrmPerSec(r) ==
  IF r.kind = "none" THEN 0
  ELSE IF r.kind = "ratio"
    THEN IF r.b = 0 THEN Raised ELSE r.a \div r.b
    ELSE r.a

Clock(v) == [raised |-> FALSE, v |-> v]
ClockRaised == [raised |-> TRUE, v |-> <<>>]

FormatDuration(a) ==
  IF a.format.has /\ a.format.duration # NoVal
    THEN Clock(sec_hum(a.format.duration)) ELSE Clock(<<>>)

calc_duration(d, a) ==
  IF d.codec_type = "video" THEN
    IF TagsTruthy(d.tags) THEN
      LET t == d.tags.map
          eng == TagGet(t, "DURATION-eng", <<>>)
          dur == IF eng = <<>> THEN TagGet(t, "DURATION", <<>>) ELSE eng
      IN IF dur # <<>> THEN Clock(dur)
         ELSE LET _frames == TagGet(t, "NUMBER_OF_FRAMES-eng", 0)
                  _fps == FrmPerSec(d.avg_frame_rate)
              IN IF _fps = Raised THEN ClockRaised
                 ELSE IF _frames # 0 /\ _fps # 0
                   THEN Clock(sec_hum((_frames * 1000) \div _fps))
                   ELSE Clock(<<>>)
    ELSE FormatDuration(a)
  ELSE IF d.codec_type = "audio" THEN
    LET first ==
          IF TagsTruthy(d.tags) THEN
            LET t == d.tags.map
                eng == TagGet(t, "DURATION-eng", <<>>)
                dur == IF eng = <<>> THEN TagGet(t, "DURATION", <<>>) ELSE eng
                _bps == TagGet(t, "BPS-eng", 0)
                _bytes == TagGet(t, "NUMBER_OF_BYTES-eng", 0)
            IN IF dur # <<>> THEN Clock(dur)
               ELSE IF _bps # 0 /\ _bytes # 0
                 THEN Clock(sec_hum((_bytes * 8 * 1000) \div _bps))
                 ELSE Clock(<<>>)
          ELSE FormatDuration(a)
    IN IF first.v # <<>> \/ d.time_base.kind = "none" \/ d.nb_frames = NoVal
         THEN first
         ELSE IF d.time_base.b = 0 THEN ClockRaised
         ELSE Clock(sec_hum((d.nb_frames * d.time_base.a * 1000) \div d.time_base.b))
  ELSE IF d.codec_type = "subtitle" THEN
    IF TagsTruthy(d.tags)
      THEN Clock(TagGet(d.tags.map, "DURATION-eng", <<>>))
      ELSE Clock(<<>>)
  ELSE Clock(<<>>)

\* ------------------------------------------------------------ check_hevc
\* command tokens: '-map 0:<t>:<n> -c:<t>:<n> <c> ', '-vf "<f,...>" ', ' -s 1920x1080 '
MapTok(t, n, c) == [k |-> "map", t |-> t, n |-> n, c |-> c, f |-> <<>>]
VfTok(f) == [k |-> "vf", t |-> "", n |-> 0, c |-> "", f |-> f]
SizeTok == [k |-> "s", t |-> "", n |-> 0, c |-> "1920x1080", f |-> <<>>]

FpsFilter == "fps=30"
ScaleFilter == "scale=1920:-1:force_original_aspect_ratio=decrease,pad=1920:1080:(ow-iw)/2:(oh-ih)/2"

FpsLimit == 32000
MaxWidth == 1920
MaxHeight == 1080

\* the locals of check_hevc before the stream loop
Locals0 ==
  [main_encoder |-> "", main_bitrate |-> 0, main_fps |-> 0,
   main_resolution |-> <<>>, main_duration |-> <<>>,
   cmd_main_stream |-> <<>>, cmd_copy_stream |-> <<>>, cmd_vf |-> <<>>,
   i_v |-> 0, i_a |-> 0, i_s |-> 0,
   raised |-> FALSE, stopped |-> FALSE, err |-> "", nproc |-> 0, main_at |-> 0]

NumDigits(n) == IF n = NoVal THEN 0 ELSE IF n < 10 THEN 1 ELSE IF n < 100 THEN 2
                ELSE IF n < 1000 THEN 3 ELSE 4

\* f'{width}x{height}', the coded size when that is shorter than 5 characters
Resolution(d) ==
  IF NumDigits(d.width) + 1 + NumDigits(d.height) < 5
    THEN <<d.coded_width, d.coded_height>>
    ELSE <<d.width, d.height>>

\* mutant: the limit itself already triggers the filter
FpsTooHighInclusive(fps) == fps >= FpsLimit

FpsTooHigh(fps) == fps > FpsLimit

\* int(w) > 1920 and int(h) > 1080; int('') raises ValueError
TooLarge(res) ==
  IF res[1] = NoVal THEN Raised
  ELSE IF res[1] > MaxWidth
    THEN IF res[2] = NoVal THEN Raised
         ELSE IF res[2] > MaxHeight THEN 1 ELSE 0
    ELSE 0

IncompleteMain(bitrate, duration, fps) ==
  bitrate = 0 \/ duration = <<>> \/ fps = 0

\* mutant: a cover image may become the main stream
IsMainAnyVideo(st, d) ==
  st.main_encoder = "" /\ d.codec_type = "video"

IsMain(st, d) ==
  st.main_encoder = "" /\ d.codec_type = "video" /\ d.codec_name # "mjpeg"

\* the body of the main-stream branch, lines 381-407
MainStream(st, d, _duration, _bitrate) ==
  LET s1 == [st EXCEPT !.main_encoder = d.codec_name, !.main_bitrate = _bitrate,
                       !.cmd_main_stream = <<MapTok("v", st.i_v, "hevc_amf")>>,
                       !.main_at = st.nproc]
      fps == calc_fps(d, hms2sec(_duration))
  IN IF fps = Raised \/ fps = NoVal
       THEN [s1 EXCEPT !.raised = TRUE,
                       !.main_fps = IF fps = NoVal THEN NoVal ELSE 0]
       ELSE
         LET s2 == [s1 EXCEPT !.main_fps = fps,
                              !.cmd_vf = IF FpsTooHigh(fps)
                                           THEN Append(st.cmd_vf, FpsFilter)
                                           ELSE st.cmd_vf]
             res == Resolution(d)
             big == TooLarge(res)
             s3 == [s2 EXCEPT !.main_resolution = res]
         IN IF big = Raised THEN [s3 EXCEPT !.raised = TRUE]
            ELSE
              LET s4 == [s3 EXCEPT !.cmd_vf = IF big = 1
                                                THEN Append(s2.cmd_vf, ScaleFilter)
                                                ELSE s2.cmd_vf]
              IN IF IncompleteMain(_bitrate, _duration, fps)
                   THEN [s4 EXCEPT !.stopped = TRUE,
                                   !.err = "empty main_bitrate/duration/fps"]
                   ELSE [s4 EXCEPT !.main_duration = _duration,
                                   !.i_v = st.i_v + 1]

\* mutant: a dropped video stream is not counted
OtherStreamSkipsDropped(st, d) ==
  IF d.codec_type = "video" THEN
    IF d.pix_fmt # "yuv420p" THEN st
    ELSE [st EXCEPT !.cmd_copy_stream = Append(@, MapTok("v", st.i_v, "copy")),
                    !.i_v = @ + 1]
  ELSE IF d.codec_type = "audio" THEN
    [st EXCEPT !.cmd_copy_stream =
                 IF d.codec_name # "aac"
                   THEN Append(@, MapTok("a", st.i_a, "aac -async 1 -apad 1"))
                   ELSE Append(@, MapTok("a", st.i_a, "copy")),
               !.i_a = @ + 1]
  ELSE IF d.codec_type = "subtitle" THEN
    [st EXCEPT !.cmd_copy_stream = Append(@, MapTok("s", st.i_s, "copy")),
               !.i_s = @ + 1]
  ELSE st

\* the else branch, lines 409-441
OtherStream(st, d) ==
  IF d.codec_type = "video" THEN
    [st EXCEPT !.cmd_copy_stream =
                 IF d.pix_fmt # "yuv420p" THEN @
                 ELSE Append(@, MapTok("v", st.i_v, "copy")),
               !.i_v = @ + 1]
  ELSE IF d.codec_type = "audio" THEN
    [st EXCEPT !.cmd_copy_stream =
                 IF d.codec_name # "aac"
                   THEN Append(@, MapTok("a", st.i_a, "aac -async 1 -apad 1"))
                   ELSE Append(@, MapTok("a", st.i_a, "copy")),
               !.i_a = @ + 1]
  ELSE IF d.codec_type = "subtitle" THEN
    [st EXCEPT !.cmd_copy_stream = Append(@, MapTok("s", st.i_s, "copy")),
               !.i_s = @ + 1]
  ELSE st

\* one iteration of `for _i, _d in enumerate(j_data['streams'])`
StreamStep(p, st0, d) ==
  LET st == [st0 EXCEPT !.nproc = @ + 1]
      whole == IF d.duration = NoVal THEN 0 ELSE d.duration \div 1000
      dur1 == IF whole # 0 THEN Clock(sec_hum(whole * 1000))
              ELSE calc_duration(d, p)
  IN IF dur1.raised \/ dur1.v = <<>>      \* an exception, or `assert _duration`
       THEN [st EXCEPT !.raised = TRUE]
       ELSE
         LET _duration == dur1.v
             field == IF d.bit_rate = NoVal THEN 0 ELSE d.bit_rate
             _bitrate == IF field = 0
                           THEN calc_bitrate(d, p, p.size, hms2sec(_duration))
                           ELSE field
         IN IF _bitrate = Raised THEN [st EXCEPT !.raised = TRUE]
            ELSE IF IsMain(st, d) THEN MainStream(st, d, _duration, _bitrate)
            ELSE OtherStream(st, d)

RECURSIVE StreamLoop(_, _, _)
StreamLoop(p, st, i) ==
  IF i > Len(p.streams) \/ st.raised \/ st.stopped THEN st
  ELSE StreamLoop(p, StreamStep(p, st, p.streams[i]), i + 1)

HasScale(vf) == \E i \in DOMAIN vf : vf[i] = ScaleFilter

\* lines 442-446: the filter clause in front, the size directive behind
Finish(st) ==
  IF st.cmd_vf = <<>> THEN st
  ELSE [st EXCEPT !.cmd_main_stream =
          <<VfTok(st.cmd_vf)>> \o @ \o
          (IF HasScale(st.cmd_vf) THEN <<SizeTok>> ELSE <<>>)]

\* mutant: the copy fragment is not required
AllResolvedMainOnly(st) ==
  /\ st.main_encoder # "" /\ st.main_bitrate # 0 /\ st.main_fps # 0
  /\ st.main_resolution # <<>> /\ st.main_duration # <<>>
  /\ st.cmd_main_stream # <<>>

\* line 447
AllResolved(st) ==
  /\ st.main_encoder # "" /\ st.main_bitrate # 0 /\ st.main_fps # 0
  /\ st.main_resolution # <<>> /\ st.main_duration # <<>>
  /\ st.cmd_main_stream # <<>> /\ st.cmd_copy_stream # <<>>

Result(valid, err, st) ==
  [is_valid |-> valid, err |-> err,
   main_encoder |-> st.main_encoder, main_bitrate |-> st.main_bitrate,
   main_fps |-> st.main_fps, main_resolution |-> st.main_resolution,
   main_duration |-> st.main_duration,
   cmd_main_stream |-> st.cmd_main_stream, cmd_copy_stream |-> st.cmd_copy_stream,
   cmd_vf |-> st.cmd_vf, raised |-> st.raised, stopped |-> st.stopped,
   nproc |-> st.nproc, main_at |-> st.main_at, i_v |-> st.i_v, i_a |-> st.i_a,
   i_s |-> st.i_s]

\* the error string of the except clause, line 450
ExceptErr(p) == p.stderr

\* the error string when the probe printed nothing: err keeps its initial ''
EmptyOutputErr(p) == ""

\* p: the file as the probe tool sees it
check_hevc(p) ==
  IF ~p.exists \/ p.size = 0
    THEN Result(FALSE, "file not exist or 0 bytes", Locals0)
  ELSE IF p.stdout = "" THEN Result(FALSE, EmptyOutputErr(p), Locals0)
  ELSE IF p.stdout # "json"                   \* json.loads raises
    THEN Result(FALSE, ExceptErr(p), [Locals0 EXCEPT !.raised = TRUE])
  ELSE IF ~p.has_streams                      \* j_data['streams'] raises KeyError
    THEN Result(FALSE, ExceptErr(p), [Locals0 EXCEPT !.raised = TRUE])
  ELSE
    LET st == StreamLoop(p, Locals0, 1)
    IN IF st.raised THEN Result(FALSE, ExceptErr(p), st)
       ELSE IF st.stopped THEN Result(FALSE, st.err, st)
       ELSE LET fin == Finish(st) IN Result(AllResolved(fin), "", fin)

\* ------------------------------------------------- probed documents (inputs)
Base ==
  [codec_type |-> "video", codec_name |-> "h264", pix_fmt |-> "yuv420p",
   duration |-> NoVal, bit_rate |-> NoVal, tags |-> NoTags,
   r_frame_rate |-> NoRate, avg_frame_rate |-> NoRate,
   width |-> NoVal, height |-> NoVal, coded_width |-> NoVal, coded_height |-> NoVal,
   time_base |-> NoRate, duration_ts |-> NoVal, nb_frames |-> NoVal]

ClockA == <<0, 5, 30, <<0, 0, 0>>>>
ClockB == <<0, 5, 31, <<4, 4, 1>>>>
ClockZero == <<0, 0, 0, <<0, 0, 0>>>>

DurSrcs == {"field", "eng", "tag", "both", "frames", "title", "zero", "none"}

DurTags(ds) ==
  CASE ds = "eng" -> Tags("DURATION-eng" :> ClockA)
    [] ds = "tag" -> Tags("DURATION" :> ClockB)
    [] ds = "both" -> Tags(("DURATION-eng" :> ClockA) @@ ("DURATION" :> ClockB))
    [] ds = "frames" -> Tags("NUMBER_OF_FRAMES-eng" :> 991)
    [] ds = "title" -> Tags("title" :> 1)
    [] ds = "zero" -> Tags("DURATION" :> ClockZero)
    [] OTHER -> NoTags

Rates ==
  {[r |-> Ratio(30, 1), avg |-> Ratio(30, 1)],
   [r |-> Ratio(32, 1), avg |-> Ratio(32, 1)],
   [r |-> Ratio(3201, 100), avg |-> Ratio(3201, 100)],
   [r |-> Ratio(30000, 1001), avg |-> Ratio(30000, 1001)],
   [r |-> Ratio(60, 1), avg |-> Ratio(60, 1)],
   [r |-> IntRate(60), avg |-> NoRate],
   [r |-> Ratio(0, 1), avg |-> Ratio(30, 1)],
   [r |-> Ratio(0, 0), avg |-> Ratio(0, 0)],
   [r |-> NoRate, avg |-> Ratio(25, 1)],
   [r |-> NoRate, avg |-> NoRate]}

Sizes ==
  {[w |-> 1920, h |-> 1080, cw |-> NoVal, ch |-> NoVal],
   [w |-> 1921, h |-> 1081, cw |-> NoVal, ch |-> NoVal],
   [w |-> 1921, h |-> 1080, cw |-> NoVal, ch |-> NoVal],
   [w |-> 1920, h |-> 1081, cw |-> NoVal, ch |-> NoVal],
   [w |-> NoVal, h |-> NoVal, cw |-> 3840, ch |-> 2160],
   [w |-> NoVal, h |-> NoVal, cw |-> NoVal, ch |-> NoVal]}

MkVideo(ds, b, rt, rs) ==
  [Base EXCEPT !.duration = IF ds = "field" THEN 330500 ELSE NoVal,
               !.tags = DurTags(ds), !.bit_rate = b,
               !.r_frame_rate = rt.r, !.avg_frame_rate = rt.avg,
               !.width = rs.w, !.height = rs.h,
               !.coded_width = rs.cw, !.coded_height = rs.ch]

VideoVariants ==
  {MkVideo(ds, b, rt, rs) : ds \in DurSrcs, b \in {4000000, NoVal},
                            rt \in Rates, rs \in Sizes}

Video == MkVideo("field", 4000000, [r |-> Ratio(30, 1), avg |-> Ratio(30, 1)],
                 [w |-> 1280, h |-> 720, cw |-> NoVal, ch |-> NoVal])
Video444 == [Video EXCEPT !.pix_fmt = "yuv444p"]
Cover == [Video EXCEPT !.codec_name = "mjpeg", !.pix_fmt = "yuvj420p"]
Aac == [Base EXCEPT !.codec_type = "audio", !.codec_name = "aac", !.pix_fmt = "N/A",
                    !.duration = 330000, !.bit_rate = 128000]
Wma == [Aac EXCEPT !.codec_name = "wmav2", !.duration = NoVal, !.bit_rate = NoVal,
                   !.tags = Tags(("BPS-eng" :> 640) @@ ("NUMBER_OF_BYTES-eng" :> 26400))]
Sub == [Base EXCEPT !.codec_type = "subtitle", !.codec_name = "mov_text",
                    !.pix_fmt = "N/A", !.duration = 329000]
SubNoDur == [Sub EXCEPT !.duration = NoVal]
Data == [Base EXCEPT !.codec_type = "data", !.codec_name = "bin_data",
                     !.pix_fmt = "N/A", !.duration = 330000]
DataNoDur == [Data EXCEPT !.duration = NoVal]
Attach == [Data EXCEPT !.codec_type = "attachment", !.codec_name = "ttf"]

StreamPool == {Video, Video444, Cover, Aac, Wma, Sub, SubNoDur, Data, DataNoDur, Attach}

SeqsUpTo(S, n) == UNION {[1..k -> S] : k \in 0..n}

Formats ==
  {NoFormat,
   [has |-> TRUE, bit_rate |-> 5000000, duration |-> 330500],
   [has |-> TRUE, bit_rate |-> 0, duration |-> 330500],
   [has |-> TRUE, bit_rate |-> 0, duration |-> NoVal]}

\* the stream lists: every order of the pool's streams, and every metadata
\* variant of a video stream alone, before and after an audio stream
StreamLists ==
  SeqsUpTo(StreamPool, MaxStreams)
  \cup {<<v>> : v \in VideoVariants}
  \cup {<<v, Aac>> : v \in VideoVariants}
  \cup {<<Wma, v>> : v \in VideoVariants}

Diagnostics == {"", "moov atom not found"}

FileSize == 100000

Probed(streams, format, stderr) ==
  [exists |-> TRUE, size |-> FileSize, stdout |-> "json", has_streams |-> TRUE,
   stderr |-> stderr, streams |-> streams, format |-> format]

ProbeInputs ==
  {Probed(ss, f, e) : ss \in StreamLists, f \in Formats, e \in Diagnostics}
  \cup {[Probed(<<>>, NoFormat, e) EXCEPT !.stdout = o] :
          o \in {"", "garbage"}, e \in Diagnostics}
  \cup {[Probed(<<>>, NoFormat, e) EXCEPT !.has_streams = FALSE] : e \in Diagnostics}
  \cup {[Probed(<<>>, NoFormat, "") EXCEPT !.exists = FALSE],
        [Probed(<<>>, NoFormat, "") EXCEPT !.size = 0]}

\* ------------------------------------------------------ ProgressNotifier
\* bytes are one-character strings, a line is a sequence of bytes;
\* in a pattern "#" stands for \d
DigitSeq == <<"0", "1", "2", "3", "4", "5", "6", "7", "8", "9">>
DigitChars == {DigitSeq[i] : i \in DOMAIN DigitSeq}
DigitVal(c) == CHOOSE v \in 0..9 : DigitSeq[v + 1] = c
Num2(line, i) == 10 * DigitVal(line[i]) + DigitVal(line[i + 1])

_DURATION_RX ==
  <<"D", "u", "r", "a", "t", "i", "o", "n", ":", " ", "#", "#", ":", "#",
    "#", ":", "#", "#", ".", "#", "#">>
_PROGRESS_RX ==
  <<"t", "i", "m", "e", "=", "#", "#", ":", "#", "#", ":", "#", "#", ".",
    "#", "#">>
_SOURCE_OPEN ==
  <<"f", "r", "o", "m", " ", "'">>
_SOURCE_CLOSE ==
  <<"'", ":">>
_FPS_RX_DEC ==
  <<"#", "#", ".", "#", "#", " ", "f", "p", "s">>
_FPS_RX_INT ==
  <<"#", "#", " ", "f", "p", "s">>
PromptSuffix ==
  <<"[", "y", "/", "N", "]", " ">>

MatchAt(pat, line, i) ==
  /\ i + Len(pat) - 1 <= Len(line)
  /\ \A j \in 1..Len(pat) :
       IF pat[j] = "#" THEN line[i + j - 1] \in DigitChars
       ELSE line[i + j - 1] = pat[j]

SetMin(S) == CHOOSE x \in S : \A y \in S : x <= y
SetMax(S) == CHOOSE x \in S : \A y \in S : x >= y

\* rx.search(line): the leftmost position where the pattern matches, 0 if none
Search(pat, line) ==
  LET hits == {i \in 1..Len(line) : MatchAt(pat, line, i)}
  IN IF hits = {} THEN 0 ELSE SetMin(hits)

_seconds(hours, minutes, seconds) == (hours * 60 + minutes) * 60 + seconds

get_duration(line) ==
  LET i == Search(_DURATION_RX, line)
  IN IF i = 0 THEN NoVal
     ELSE _seconds(Num2(line, i + 10), Num2(line, i + 13), Num2(line, i + 16))

\* (\d{2}\.\d{2}|\d{2}) fps: the leftmost match, round(float(group))
get_fps(line) ==
  LET i1 == Search(_FPS_RX_DEC, line)
      i2 == Search(_FPS_RX_INT, line)
  IN IF i1 = 0 /\ i2 = 0 THEN NoVal
     ELSE IF i1 # 0 /\ (i2 = 0 \/ i1 <= i2)
       THEN RoundDiv(Num2(line, i1) * 100 + Num2(line, i1 + 3), 100)
       ELSE Num2(line, i2)

SubSeqFrom(s, i) == SubSeq(s, i, Len(s))

shorten(s, max_length, placeholder) ==
  IF Len(s) <= max_length THEN s
  ELSE IF max_length <= Len(placeholder) THEN SubSeq(s, 1, max_length)
  ELSE LET remaining == max_length - Len(placeholder)
           head_length == remaining \div 2
           tail_length == remaining - head_length
       IN SubSeq(s, 1, head_length) \o placeholder
            \o SubSeqFrom(s, Len(s) - tail_length + 1)

basename(path) ==
  LET seps == {i \in DOMAIN path : path[i] \in {"/", "\\"}}
  IN IF seps = {} THEN path ELSE SubSeqFrom(path, SetMax(seps) + 1)

SourcePlaceholder == <<"[", ".", ".", ".", "]">>
SourceWidth == 50

NoSource == [has |-> FALSE, v |-> <<>>]

\* from '(.*)': the first "from '", the last "':" behind it
get_source(line) ==
  LET i == Search(_SOURCE_OPEN, line)
      ends == {j \in 1..Len(line) : j >= i + 6 /\ MatchAt(_SOURCE_CLOSE, line, j)}
  IN IF i = 0 \/ ends = {} THEN NoSource
     ELSE [has |-> TRUE,
           v |-> shorten(basename(SubSeq(line, i + 6, SetMax(ends) - 1)),
                         SourceWidth, SourcePlaceholder)]

NoPbar == [created |-> FALSE, closed |-> FALSE, n |-> 0, total |-> NoVal,
           unit |-> "", desc |-> NoSource]

\* ProgressNotifier.__init__
Notifier0 ==
  [lines |-> <<>>, line_acc |-> <<>>, duration |-> NoVal, source |-> NoSource,
   fps |-> NoVal, pbar |-> NoPbar, echoed |-> 0, inputs |-> 0, stdin_q |-> <<>>]

LastTwo(ls) == IF Len(ls) <= 2 THEN ls ELSE SubSeq(ls, Len(ls) - 1, Len(ls))

\* mutant: the partial line is kept
newline_keeps_acc(nt) ==
  [nt EXCEPT !.lines = LastTwo(Append(@, nt.line_acc))]

\* the notifier after newline(); the line it returns is nt.line_acc
newline(nt) ==
  [nt EXCEPT !.lines = LastTwo(Append(@, nt.line_acc)), !.line_acc = <<>>]

\* mutant: the position is not converted to frames
progress_in_seconds(nt, line) ==
  LET i == Search(_PROGRESS_RX, line)
      current == _seconds(Num2(line, i + 5), Num2(line, i + 8), Num2(line, i + 11))
      unit == IF nt.fps # NoVal THEN " frames" ELSE " seconds"
      total == IF nt.fps # NoVal /\ nt.duration \notin {NoVal, 0}
                 THEN nt.duration * nt.fps ELSE nt.duration
      bar == IF nt.pbar.created THEN nt.pbar
             ELSE [created |-> TRUE, closed |-> FALSE, n |-> 0, total |-> total,
                   unit |-> unit, desc |-> nt.source]
  IN IF i = 0 THEN nt
     ELSE [nt EXCEPT !.pbar = [bar EXCEPT !.n = bar.n + (current - bar.n)]]

progress(nt, line) ==
  LET i == Search(_PROGRESS_RX, line)
      secs == _seconds(Num2(line, i + 5), Num2(line, i + 8), Num2(line, i + 11))
      unit == IF nt.fps # NoVal THEN " frames" ELSE " seconds"
      current == IF nt.fps # NoVal THEN secs * nt.fps ELSE secs
      total == IF nt.fps # NoVal /\ nt.duration \notin {NoVal, 0}
                 THEN nt.duration * nt.fps ELSE nt.duration
      bar == IF nt.pbar.created THEN nt.pbar
             ELSE [created |-> TRUE, closed |-> FALSE, n |-> 0, total |-> total,
                   unit |-> unit, desc |-> nt.source]
  IN IF i = 0 THEN nt
     ELSE [nt EXCEPT !.pbar = [bar EXCEPT !.n = bar.n + (current - bar.n)]]

EndsWithPrompt(acc) ==
  Len(acc) >= 6 /\ SubSeqFrom(acc, Len(acc) - 5) = PromptSuffix

\* the line typed at the terminal in answer to a prompt
TypedAnswer == <<"y">>

\* mutant: every completed line is searched again for all three fields
CallExtractsAgain(nt, char, stdin) ==
  IF char \in {"\r", "\n"} THEN
    LET line == nt.line_acc
        n1 == newline(nt)
        n2 == [n1 EXCEPT
                 !.duration = IF get_duration(line) # NoVal THEN get_duration(line) ELSE @,
                 !.source = IF get_source(line).has THEN get_source(line) ELSE @,
                 !.fps = IF get_fps(line) # NoVal THEN get_fps(line) ELSE @]
    IN progress(n2, line)
  ELSE
    LET n1 == [nt EXCEPT !.line_acc = Append(@, char)]
    IN IF EndsWithPrompt(n1.line_acc)
         THEN newline([n1 EXCEPT
                         !.echoed = @ + 1,
                         !.inputs = IF stdin THEN @ + 1 ELSE @,
                         !.stdin_q = IF stdin THEN Append(@, TypedAnswer \o <<"\n">>)
                                     ELSE @])
         ELSE n1

\* ProgressNotifier.__call__(char, stdin); stdin is FALSE for None
Call(nt, char, stdin) ==
  IF char \in {"\r", "\n"} THEN
    LET line == nt.line_acc
        n1 == newline(nt)
        n2 == [n1 EXCEPT
                 !.duration = IF @ = NoVal THEN get_duration(line) ELSE @,
                 !.source = IF ~@.has THEN get_source(line) ELSE @,
                 !.fps = IF @ = NoVal THEN get_fps(line) ELSE @]
    IN progress(n2, line)
  ELSE
    LET n1 == [nt EXCEPT !.line_acc = Append(@, char)]
    IN IF EndsWithPrompt(n1.line_acc)
         THEN newline([n1 EXCEPT
                         !.echoed = @ + 1,
                         !.inputs = IF stdin THEN @ + 1 ELSE @,
                         !.stdin_q = IF stdin THEN Append(@, TypedAnswer \o <<"\n">>)
                                     ELSE @])
         ELSE n1

\* ProgressNotifier.__exit__
Close(nt) == IF nt.pbar.created THEN [nt EXCEPT !.pbar.closed = TRUE] ELSE nt

\* what the encoder writes to its diagnostic channel before it exits
LineDuration330 ==
  <<"D", "u", "r", "a", "t", "i", "o", "n", ":", " ", "0", "0", ":", "0",
    "5", ":", "3", "0", ".", "0", "0">>
LineFps2997 ==
  <<"2", "9", ".", "9", "7", " ", "f", "p", "s">>
LineTime60 ==
  <<"t", "i", "m", "e", "=", "0", "0", ":", "0", "1", ":", "0", "0", ".",
    "0", "0">>
LineTime120 ==
  <<"t", "i", "m", "e", "=", "0", "0", ":", "0", "2", ":", "0", "0", ".",
    "0", "0">>
LineTime10 ==
  <<"t", "i", "m", "e", "=", "0", "0", ":", "0", "0", ":", "1", "0", ".",
    "0", "0">>
LineFps2250 ==
  <<"2", "2", ".", "5", "0", " ", "f", "p", "s">>
LineError ==
  <<"E", "r", "r", "o", "r", "!">>
LinePrompt ==
  <<"o", "?", " ", "[", "y", "/", "N", "]", " ">>
LineDuration20Fps ==
  <<"D", "u", "r", "a", "t", "i", "o", "n", ":", " ", "0", "0", ":", "0",
    "0", ":", "2", "0", ".", "0", "0", ",", " ", "1", "2", "0", " ", "f",
    "p", "s">>
LineFrom ==
  <<"f", "r", "o", "m", " ", "'", "d", "/", "a", ".", "m", "p", "4", "'",
    ":">>
LineStats ==
  <<"f", "p", "s", "=", " ", "5", "5", " ", "t", "i", "m", "e", "=", "0",
    "0", ":", "0", "0", ":", "1", "0", ".", "0", "0">>
LineFromB ==
  <<"f", "r", "o", "m", " ", "'", "b", ".", "t", "s", "'", ":">>
CR == <<"\r">>
LF == <<"\n">>

Scripts ==
  {<<>>,
   LineError,
   LineError \o LF,
   LineDuration330 \o LF \o LineFps2997 \o LF \o LineTime60 \o CR \o LineTime120 \o LF,
   LineTime10 \o CR \o LineFps2250 \o LF \o LineTime60 \o CR,
   LineFrom \o LF \o LineDuration20Fps \o LF \o LineDuration330 \o CR \o LineStats \o CR,
   LinePrompt \o LineError \o LF \o LinePrompt,
   LineFrom \o LF \o LineFps2997 \o LF \o LineFromB \o LF \o LineFps2250 \o LF}

\* ------------------------------------------------------------------ bounds
\* bytes the encoder may be ahead of the reader (the pipe's capacity)
PipeCap == 2
MaxDirs == 2
MaxFiles == 2

\* ------------------------------------------------------------------ state
VARIABLES
  probe,      \* the file handed to check_hevc
  result,     \* what check_hevc returned
  probed,     \* whether check_hevc has returned
  file,       \* the file handed to the per-file checks of main
  seen,       \* what the per-file checks made of it
  script,     \* call_ffmpeg: the bytes the encoder writes before it exits
  wpos,       \* bytes the encoder has written
  rpos,       \* bytes read from p.stderr
  exited,     \* the encoder process has exited
  excode,     \* its exit code
  nt,         \* the ProgressNotifier
  spc,        \* where call_ffmpeg stands
  errlog,     \* what call_ffmpeg logged with error()
  ki,         \* a KeyboardInterrupt was caught by call_ffmpeg
  fed,        \* the lines handed to the extractors, in order
  args,       \* main: the command line
  dpc,        \* where main stands
  counts,     \* checked, skipped, check_err, convert_err, converted
  flag_exit,
  exit_file,  \* exit.txt exists
  cur,        \* the locals of the file being converted
  dirNo,      \* directories walked so far
  fileNo,     \* files taken from the current directory
  last        \* what the last verification found and did

probeVars == <<probe, result, probed, file, seen>>
encVars == <<script, wpos, exited, excode>>
sessVars == <<script, wpos, rpos, exited, excode, nt, spc, errlog, ki, fed>>
drvVars == <<args, dpc, counts, flag_exit, exit_file, cur, dirNo, fileNo, last>>
vars == <<probeVars, sessVars, drvVars>>

NoResult == Result(FALSE, "", Locals0)
NoProbe == [Probed(<<>>, NoFormat, "") EXCEPT !.exists = FALSE]

NoFile == [h265 |-> FALSE, p |-> NoProbe, conv |-> NoProbe]
NoSeen == [act |-> "none", why |-> "", conv |-> "none"]

ProbeIdle ==
  /\ probe = NoProbe /\ result = NoResult /\ probed = FALSE
  /\ file = NoFile /\ seen = NoSeen

SessionReset(s, pc) ==
  /\ script = s /\ wpos = 0 /\ rpos = 0 /\ exited = FALSE /\ excode = 0
  /\ nt = Notifier0 /\ spc = pc /\ errlog = <<>> /\ ki = FALSE /\ fed = <<>>

Counts0 == [checked |-> 0, skipped |-> 0, check_err |-> 0, convert_err |-> 0,
            converted |-> 0]
NoCur == [old_size |-> 0, main_fps |-> 0, main_resolution |-> <<>>,
          main_duration |-> <<>>, interrupted |-> FALSE]
NoLast == [file |-> 0, interrupted |-> FALSE, exit_present |-> FALSE,
           out_valid |-> FALSE, verified |-> FALSE, deleted |-> FALSE,
           counted |-> "none"]
DriverIs(a, pc) ==
  /\ args = a /\ dpc = pc /\ counts = Counts0 /\ flag_exit = FALSE
  /\ exit_file = FALSE /\ cur = NoCur /\ dirNo = 1 /\ fileNo = 0 /\ last = NoLast

Args(t, k, n) == [use_tqdm |-> t, keep_old |-> k, nr_convert |-> n]

\* ------------------------------------------- specification of check_hevc
InitProbe ==
  /\ probe \in ProbeInputs
  /\ result = NoResult
  /\ probed = FALSE
  /\ file = NoFile /\ seen = NoSeen
  /\ SessionReset(<<>>, "idle")
  /\ DriverIs(Args(TRUE, FALSE, 1), "idle")

CheckHevc ==
  /\ ~probed /\ dpc = "idle" /\ spc = "idle"
  /\ result' = check_hevc(probe)
  /\ probed' = TRUE
  /\ UNCHANGED <<probe, file, seen, sessVars, drvVars>>

NextProbe == CheckHevc

SpecProbe == InitProbe /\ [][NextProbe]_vars

\* ------------------------------------------------------------ call_ffmpeg
ExitCodes == {0, 1}

\* subprocess.Popen / subprocess.run starts the encoder
Popen ==
  /\ spc = "start"
  /\ spc' = IF args.use_tqdm THEN "read" ELSE "run"
  /\ UNCHANGED <<encVars, rpos, nt, errlog, ki, fed, probeVars, drvVars>>

\* Popen raises (the encoder cannot be started): the handler's p.kill() finds
\* no p, and an exception leaves call_ffmpeg either way
PopenFails ==
  /\ spc = "start"
  /\ spc' = "raised"
  /\ UNCHANGED <<encVars, rpos, nt, errlog, ki, fed, probeVars, drvVars>>

\* the encoder writes its next byte; into the pipe only while there is room
EncoderWrite ==
  /\ spc \in {"read", "poll", "run"}
  /\ ~exited /\ wpos < Len(script)
  /\ args.use_tqdm => wpos - rpos < PipeCap
  /\ wpos' = wpos + 1
  /\ UNCHANGED <<script, exited, excode, rpos, nt, spc, errlog, ki, fed,
                 probeVars, drvVars>>

EncoderExit ==
  /\ spc \in {"read", "poll", "run"}
  /\ ~exited /\ wpos = Len(script)
  /\ exited' = TRUE
  /\ excode' \in ExitCodes
  /\ UNCHANGED <<script, wpos, rpos, nt, spc, errlog, ki, fed, probeVars, drvVars>>

\* out = p.stderr.read(1); if out: notifier(out)
ReadByte ==
  /\ spc = "read"
  /\ \/ /\ rpos < wpos
        /\ rpos' = rpos + 1
        /\ nt' = Call(nt, script[rpos + 1], FALSE)
        /\ fed' = IF script[rpos + 1] \in {"\r", "\n"}
                    THEN Append(fed, nt.line_acc) ELSE fed
     \/ /\ rpos = wpos /\ exited           \* end of file: b''
        /\ UNCHANGED <<rpos, nt, fed>>
  /\ spc' = "poll"
  /\ UNCHANGED <<encVars, errlog, ki, probeVars, drvVars>>

\* the error(...) of the else clause: notifier.lines[-1]
LastLine(n) == n.lines[Len(n.lines)]

\* if p.poll() is not None: break, then __exit__ and the else clause
PollChild ==
  /\ spc = "poll"
  /\ IF ~exited
       THEN /\ spc' = "read"
            /\ UNCHANGED <<nt, errlog>>
       ELSE /\ nt' = Close(nt)
            /\ IF excode # 0
                 THEN IF nt.lines = <<>>
                        THEN spc' = "raised" /\ UNCHANGED errlog   \* IndexError
                        ELSE spc' = "done" /\ errlog' = Append(errlog, LastLine(nt))
                 ELSE spc' = "done" /\ UNCHANGED errlog
  /\ UNCHANGED <<encVars, rpos, ki, fed, probeVars, drvVars>>

\* subprocess.run returns once the encoder has exited
RunReturns ==
  /\ spc = "run" /\ exited
  /\ spc' = "done"
  /\ UNCHANGED <<encVars, rpos, nt, errlog, ki, fed, probeVars, drvVars>>

\* the user's interrupt: caught in the progress loop, not around subprocess.run
KeyboardInterrupt ==
  /\ spc \in {"read", "poll", "run"}
  /\ IF spc = "run"
       THEN /\ spc' = "raised" /\ exited' = TRUE
            /\ UNCHANGED <<nt, ki>>
       ELSE /\ spc' = "done" /\ nt' = Close(nt) /\ ki' = TRUE
            /\ UNCHANGED exited
  /\ UNCHANGED <<script, wpos, excode, rpos, errlog, fed, probeVars, drvVars>>

SessionStep ==
  \/ Popen
  \/ PopenFails
  \/ EncoderWrite
  \/ EncoderExit
  \/ ReadByte
  \/ PollChild
  \/ RunReturns
  \/ KeyboardInterrupt

InitSession ==
  /\ ProbeIdle
  /\ \E s \in Scripts : SessionReset(s, "start")
  /\ \E t \in BOOLEAN : DriverIs(Args(t, FALSE, 1), "idle")

NextSession == SessionStep

SpecSession == InitSession /\ [][NextSession]_vars

\* ------------------------------------------------------------------- main
\* file sizes in the driver are counted in MiB
MIN_SIZE == 512

Hevc == [Video EXCEPT !.codec_name = "hevc"]
Av1 == [Video EXCEPT !.codec_name = "av1"]
Video60 == [Video EXCEPT !.r_frame_rate = Ratio(60, 1)]
Video4K == [Video EXCEPT !.width = 3840, !.height = 2160]
HevcTagged(c) == [Hevc EXCEPT !.duration = NoVal, !.tags = Tags("DURATION" :> c)]

OnDisk(size, streams) == [Probed(streams, NoFormat, "") EXCEPT !.size = size]
Unreadable(size) ==
  [Probed(<<>>, NoFormat, "moov atom not found") EXCEPT !.size = size, !.stdout = "garbage"]
Missing == NoProbe

\* a file the walk finds: its name ends in .H265 or not, the file itself,
\* and the file at the converted path (Missing when there is none)
File(h265, p, conv) == [h265 |-> h265, p |-> p, conv |-> conv]

Files ==
  {File(FALSE, OnDisk(100, <<Video, Aac>>), Missing),
   File(TRUE, OnDisk(600, <<Hevc, Aac>>), Missing),
   File(TRUE, Unreadable(600), Missing),
   File(FALSE, OnDisk(600, <<Video, Aac>>), Missing),
   File(FALSE, OnDisk(600, <<Video60, Aac>>), Missing),
   File(FALSE, OnDisk(600, <<Video4K, Wma>>), Missing),
   File(FALSE, OnDisk(600, <<Hevc, Aac>>), Missing),
   File(FALSE, OnDisk(600, <<Av1, Aac>>), Missing),
   File(FALSE, OnDisk(600, <<Video>>), Missing),
   File(FALSE, Unreadable(600), Missing),
   File(FALSE, OnDisk(600, <<Video, Aac>>), OnDisk(300, <<Hevc, Aac>>)),
   File(FALSE, OnDisk(600, <<Video, Aac>>),
        OnDisk(100, <<HevcTagged(<<0, 1, 40, <<0, 0, 0>>>>), Aac>>)),
   File(FALSE, OnDisk(600, <<Video, Aac>>), Unreadable(10))}

\* the file at the converted path once the encode session is over
Outputs ==
  {Missing,
   Unreadable(10),
   OnDisk(300, <<Hevc, Aac>>),
   OnDisk(300, <<HevcTagged(<<0, 5, 31, <<9, 9, 9>>>>), Aac>>),
   OnDisk(300, <<HevcTagged(<<0, 5, 32, <<0, 0, 0>>>>), Aac>>),
   OnDisk(300, <<HevcTagged(<<0, 1, 40, <<0, 0, 0>>>>), Aac>>),
   OnDisk(300, <<Hevc>>),
   OnDisk(600, <<Hevc, Aac>>),
   OnDisk(700, <<Hevc, Aac>>)}

DriverScripts == {<<>>, <<"x">> \o LF}

NrConverts == {0, 1, 2}

DurationTolerance == 2000

Abs(x) == IF x < 0 THEN 0 - x ELSE x

\* abs(hms2sec(_dur) - hms2sec(_main_duration)) < 2
DurationsClose(a, b) == Abs(hms2sec(a) - hms2sec(b)) < DurationTolerance

\* abs(hms2sec(_dur) < hms2sec(_main_duration)) < 2: abs of a bool, 0 or 1
DurationsCloseCoerced(a, b) ==
  (IF hms2sec(a) < hms2sec(b) THEN 1 ELSE 0) < 2

\* _main_resolution.find('3840') == -1, for sizes of at most four digits
No3840(res) == res[1] # 3840 /\ res[2] # 3840

\* the counterpart as the claims see it: r the source's plan, c its own
Counterpart(f, r, c) ==
  IF ~f.conv.exists THEN "none"
  ELSE IF ~c.is_valid THEN "invalid"
  ELSE IF DurationsClose(c.main_duration, r.main_duration) THEN "close"
  ELSE "far"

Verdict(act, why, conv, r) == [act |-> act, why |-> why, conv |-> conv, r |-> r]

\* lines 496-546 for file f, r and c being what check_hevc makes of the file
\* and of the file at the converted path: what becomes of f before any encoding
ClassifyProbed(f, r, c) ==
  IF f.p.size < MIN_SIZE THEN Verdict("skipped", "small", "none", NoResult)
  ELSE IF f.h265 THEN Verdict("skipped", "h265", "none", r)
  ELSE IF f.p.size = 0 THEN Verdict("skipped", "empty", "none", NoResult)
  ELSE IF r.err # "" THEN Verdict("check_err", "error", "none", r)
  ELSE IF ~r.is_valid \/ r.main_encoder = "" THEN Verdict("skipped", "invalid", "none", r)
  ELSE IF /\ f.conv.exists
          /\ c.is_valid
          /\ DurationsCloseCoerced(c.main_duration, r.main_duration)
    THEN Verdict("skipped", "converted", Counterpart(f, r, c), r)
  ELSE IF r.main_encoder \in {"hevc", "av1"}
    THEN Verdict("skipped", "codec", Counterpart(f, r, c), r)
  ELSE Verdict("convert", "", Counterpart(f, r, c), r)

Classify(f) == ClassifyProbed(f, check_hevc(f.p), check_hevc(f.conv))

Bump(c, field) == [c EXCEPT ![field] = @ + 1]

\* --------------------------------- specification of the per-file checks
InitClassify ==
  /\ probe = NoProbe /\ result = NoResult /\ probed = FALSE
  /\ file \in Files /\ seen = NoSeen
  /\ SessionReset(<<>>, "idle")
  /\ \E t \in BOOLEAN, k \in BOOLEAN, n \in NrConverts : DriverIs(Args(t, k, n), "idle")

\* lines 495-546 for one file on its own
PerFileChecks ==
  /\ dpc = "idle" /\ spc = "idle" /\ seen = NoSeen /\ file # NoFile
  /\ \E c \in {Classify(file)} :
       /\ seen' = [act |-> c.act, why |-> c.why, conv |-> c.conv]
       /\ counts' = IF c.act = "convert" THEN Bump(counts, "checked")
                    ELSE Bump(Bump(counts, "checked"), c.act)
  /\ UNCHANGED <<probe, result, probed, file, sessVars, args, dpc, flag_exit,
                 exit_file, cur, dirNo, fileNo, last>>

NextClassify == PerFileChecks

SpecClassify == InitClassify /\ [][NextClassify]_vars

\* the inner loop is left; the outer loop goes on to the next directory
NextDir ==
  /\ dirNo' = dirNo + 1
  /\ fileNo' = 0

\* one iteration of `for _f in l_files` up to the call of call_ffmpeg
CheckFile ==
  /\ dpc = "walk" /\ dirNo <= MaxDirs /\ fileNo < MaxFiles
  /\ \E f \in Files : \E c \in {Classify(f)} :
       LET counted == Bump(counts, "checked")
       IN /\ IF c.act # "convert"
               THEN /\ counts' = Bump(counted, c.act)
                    /\ fileNo' = fileNo + 1
                    /\ UNCHANGED <<dpc, cur, dirNo, sessVars>>
             ELSE IF args.nr_convert = 0
               THEN /\ counts' = counted
                    /\ NextDir
                    /\ UNCHANGED <<dpc, cur, sessVars>>
             ELSE /\ counts' = counted
                  /\ fileNo' = fileNo + 1
                  /\ dpc' = "encode"
                  /\ cur' = [old_size |-> f.p.size, main_fps |-> c.r.main_fps,
                             main_resolution |-> c.r.main_resolution,
                             main_duration |-> c.r.main_duration,
                             interrupted |-> FALSE]
                  /\ \E s \in DriverScripts :
                       /\ script' = s /\ wpos' = 0 /\ rpos' = 0 /\ exited' = FALSE
                       /\ excode' = 0 /\ nt' = Notifier0 /\ spc' = "start"
                       /\ errlog' = <<>> /\ ki' = FALSE /\ fed' = <<>>
                  /\ UNCHANGED dirNo
  /\ UNCHANGED <<args, flag_exit, exit_file, last, probeVars>>

\* an exception leaves call_ffmpeg and main
SessionRaises ==
  /\ dpc = "encode" /\ spc = "raised"
  /\ dpc' = "crashed"
  \* the locals of the iteration and of call_ffmpeg are gone
  /\ cur' = NoCur
  /\ script' = <<>> /\ wpos' = 0 /\ rpos' = 0 /\ exited' = FALSE /\ excode' = 0
  /\ nt' = Notifier0 /\ spc' = "idle" /\ errlog' = <<>> /\ ki' = FALSE /\ fed' = <<>>
  /\ UNCHANGED <<args, counts, flag_exit, exit_file, dirNo, fileNo, last, probeVars>>

\* call_ffmpeg returns to main; whether it caught an interrupt is remembered
\* for the claims only, main cannot tell
FfmpegReturns ==
  /\ dpc = "encode" /\ spc = "done"
  /\ dpc' = "verify"
  /\ cur' = [cur EXCEPT !.interrupted = ki]
  /\ script' = <<>> /\ wpos' = 0 /\ rpos' = 0 /\ exited' = FALSE /\ excode' = 0
  /\ nt' = Notifier0 /\ spc' = "idle" /\ errlog' = <<>> /\ ki' = FALSE /\ fed' = <<>>
  /\ UNCHANGED <<args, counts, flag_exit, exit_file, dirNo, fileNo, last, probeVars>>

\* lines 594-630: out is the file at the converted path
AfterEncode ==
  /\ dpc = "verify"
  /\ \E out \in Outputs : \E r \in {check_hevc(out)} :
       LET _new_size == IF out.exists THEN out.size ELSE 0
           _single_saved == IF _new_size # 0 THEN cur.old_size - _new_size ELSE 0
           good == /\ r.is_valid /\ _single_saved > 0
                   /\ DurationsClose(r.main_duration, cur.main_duration)
           remove == /\ ~args.keep_old /\ cur.main_fps \div 1000 <= 30
                     /\ No3840(cur.main_resolution)
           flag == IF good THEN exit_file ELSE flag_exit
           \* the warning of the else branch evaluates hms2sec(_dur)
           crash == ~good /\ r.main_duration = <<>>
           c2 == IF good THEN Bump(counts, "converted")
                 ELSE IF crash THEN counts ELSE Bump(counts, "convert_err")
           enough == args.nr_convert > 0
                     /\ c2.converted + c2.convert_err >= args.nr_convert
       IN /\ counts' = c2
          /\ flag_exit' = flag
          /\ last' = [file |-> counts.checked, interrupted |-> cur.interrupted,
                      exit_present |-> exit_file,
                      out_valid |-> r.is_valid,
                      verified |-> good, deleted |-> good /\ remove,
                      counted |-> IF good THEN "converted"
                                  ELSE IF crash THEN "none" ELSE "convert_err"]
          /\ dpc' = IF crash THEN "crashed"
                    ELSE IF enough \/ flag THEN "done" ELSE "walk"
          /\ exit_file' = IF ~crash /\ ~enough /\ flag THEN FALSE ELSE exit_file
  \* the locals of the iteration are gone
  /\ cur' = NoCur
  /\ UNCHANGED <<args, dirNo, fileNo, probeVars, sessVars>>

\* l_files is exhausted
EndDir ==
  /\ dpc = "walk" /\ dirNo <= MaxDirs
  /\ NextDir
  /\ UNCHANGED <<args, dpc, counts, flag_exit, exit_file, cur, last,
                 probeVars, sessVars>>

\* os.walk is exhausted: the summary is logged
Summary ==
  /\ dpc = "walk" /\ fileNo = 0
  /\ dpc' = "done"
  /\ UNCHANGED <<args, counts, flag_exit, exit_file, cur, dirNo, fileNo, last,
                 probeVars, sessVars>>

\* somebody creates exit.txt
TouchExitFile ==
  /\ dpc \in {"walk", "encode", "verify"} /\ ~exit_file
  /\ exit_file' = TRUE
  /\ UNCHANGED <<args, dpc, counts, flag_exit, cur, dirNo, fileNo, last,
                 probeVars, sessVars>>

Init ==
  /\ ProbeIdle
  /\ SessionReset(<<>>, "idle")
  /\ \E t \in BOOLEAN, k \in BOOLEAN, n \in NrConverts : DriverIs(Args(t, k, n), "walk")

Next ==
  \/ CheckFile
  \/ SessionStep
  \/ SessionRaises
  \/ FfmpegReturns
  \/ AfterEncode
  \/ EndDir
  \/ Summary
  \/ TouchExitFile

Spec == Init /\ [][Next]_vars

\* --------------------------------------------- claims about check_hevc
\* what the probed document says, read off the input alone
Streamed == probe.exists /\ probe.size # 0 /\ probe.stdout = "json" /\ probe.has_streams

\* the duration line 370-374 derives for stream d
DerivedDuration(d) ==
  IF d.duration # NoVal /\ d.duration \div 1000 # 0
    THEN Clock(sec_hum((d.duration \div 1000) * 1000))
    ELSE calc_duration(d, probe)

DerivedBitrate(d) ==
  IF d.bit_rate # NoVal /\ d.bit_rate # 0 THEN d.bit_rate
  ELSE calc_bitrate(d, probe, probe.size, hms2sec(DerivedDuration(d).v))

DerivedFps(d) == calc_fps(d, hms2sec(DerivedDuration(d).v))

MainCandidates ==
  {i \in DOMAIN probe.streams :
     probe.streams[i].codec_type = "video" /\ probe.streams[i].codec_name # "mjpeg"}

HasMain == MainCandidates # {}
MainIdx == CHOOSE i \in MainCandidates : \A j \in MainCandidates : i <= j
MainOf == probe.streams[MainIdx]

\* stream i is processed without an exception
StreamFine(i) ==
  LET d == probe.streams[i]
      dur == DerivedDuration(d)
  IN /\ ~dur.raised /\ dur.v # <<>>
     /\ DerivedBitrate(d) # Raised
     /\ (HasMain /\ i = MainIdx) =>
          /\ DerivedFps(d) \notin {Raised, NoVal}
          /\ TooLarge(Resolution(d)) # Raised

MainResolved ==
  /\ HasMain
  /\ DerivedDuration(MainOf).v # <<>> /\ ~DerivedDuration(MainOf).raised
  /\ DerivedBitrate(MainOf) \notin {0, Raised}
  /\ DerivedFps(MainOf) \notin {0, Raised, NoVal}

\* a secondary stream the copy fragment keeps
Kept(i) ==
  LET d == probe.streams[i]
  IN /\ i # MainIdx
     /\ \/ d.codec_type = "video" /\ d.pix_fmt = "yuv420p"
        \/ d.codec_type \in {"audio", "subtitle"}

MainMissingSomething ==
  /\ HasMain
  /\ \A i \in 1..(MainIdx - 1) : StreamFine(i)
  /\ LET dur == DerivedDuration(MainOf)
     IN \/ ~dur.raised /\ dur.v = <<>>
        \/ /\ ~dur.raised /\ dur.v # <<>>
           /\ \/ DerivedBitrate(MainOf) = 0
              \/ DerivedBitrate(MainOf) # Raised /\ DerivedFps(MainOf) \in {0, NoVal}

\* C3 as claimed: a main video stream missing one of bitrate, duration or fps
\* gives validity false with the message 'empty main_bitrate/duration/fps',
\* whichever of the three is missing, and no later stream is processed
C3_IncompleteMainMessage ==
  (probed /\ Streamed /\ MainMissingSomething) =>
    /\ ~result.is_valid
    /\ result.err = "empty main_bitrate/duration/fps"
    /\ result.nproc = MainIdx

HasFps(vf) == \E i \in DOMAIN vf : vf[i] = FpsFilter
VfCount(frag) == Cardinality({i \in DOMAIN frag : frag[i].k = "vf"})
HasSizeTok(frag) == \E i \in DOMAIN frag : frag[i] = SizeTok
FragHasScale(frag) == \E i \in DOMAIN frag : frag[i].k = "vf" /\ HasScale(frag[i].f)

\* C6: the main stream's filter chain holds fps=30 exactly when the derived
\* main fps is above 32, and the scale+pad filter exactly when the width is
\* above 1920 and the height above 1080; the emitted fragment carries
\* '-s 1920x1080' exactly when it carries the scale filter, carries the filter
\* clause at most once, and a completed plan carries the whole filter chain
C6_FilterThresholds ==
  probed =>
    /\ HasFps(result.cmd_vf) <=> result.main_fps > 32000
    /\ HasScale(result.cmd_vf) <=>
         /\ result.main_resolution # <<>>
         /\ result.main_resolution[1] > 1920
         /\ result.main_resolution[2] > 1080
    /\ Len(result.cmd_vf) <= 2
    /\ VfCount(result.cmd_main_stream) <= 1
    /\ HasSizeTok(result.cmd_main_stream) <=> FragHasScale(result.cmd_main_stream)
    /\ (result.main_encoder # "" /\ ~result.raised /\ ~result.stopped) =>
         /\ (result.cmd_vf # <<>>) <=> (VfCount(result.cmd_main_stream) = 1)
         /\ result.cmd_vf # <<>> => result.cmd_main_stream[1] = VfTok(result.cmd_vf)
         /\ HasSizeTok(result.cmd_main_stream) <=> HasScale(result.cmd_vf)

C6_Witness ==
  /\ probed /\ result.is_valid
  /\ result.main_fps = 32010 /\ result.main_resolution = <<1921, 1081>>
  /\ result.cmd_vf = <<FpsFilter, ScaleFilter>>
  /\ HasSizeTok(result.cmd_main_stream)

\* C7 as claimed: when the probe's output is empty or unparsable, or an
\* exception is raised while the streams are processed, check_hevc returns
\* validity false with the probe's diagnostic output as the error string
C7_FailedProbeReportsDiagnostic ==
  (probed /\ probe.exists /\ probe.size # 0
     /\ (probe.stdout # "json" \/ result.raised)) =>
    /\ ~result.is_valid
    /\ result.err = probe.stderr

\* stream i is not the first video stream whose codec is not mjpeg
IsSecondary(i) == ~(HasMain /\ i = MainIdx)

TypeLetter(d) ==
  CASE d.codec_type = "video" -> "v"
    [] d.codec_type = "audio" -> "a"
    [] d.codec_type = "subtitle" -> "s"
    [] OTHER -> ""

\* what the secondary policies do with stream d: "" for a dropped stream
SecondaryCodec(d) ==
  CASE d.codec_type = "video" -> IF d.pix_fmt = "yuv420p" THEN "copy" ELSE ""
    [] d.codec_type = "audio" ->
         IF d.codec_name = "aac" THEN "copy" ELSE "aac -async 1 -apad 1"
    [] d.codec_type = "subtitle" -> "copy"
    [] OTHER -> ""

\* the streams of stream i's codec type that precede it in document order
SameTypeBefore(i) ==
  Cardinality({j \in 1..(i - 1) :
                 probe.streams[j].codec_type = probe.streams[i].codec_type})

\* the copy fragment document order prescribes for the streams i..k
RECURSIVE CopyExpected(_, _)
CopyExpected(i, k) ==
  IF i > k THEN <<>>
  ELSE LET d == probe.streams[i]
       IN (IF IsSecondary(i) /\ SecondaryCodec(d) # ""
             THEN <<MapTok(TypeLetter(d), SameTypeBefore(i), SecondaryCodec(d))>>
             ELSE <<>>)
          \o CopyExpected(i + 1, k)

MapToks(frag) == SelectSeq(frag, LAMBDA tok : tok.k = "map")
Completed == ~result.raised /\ ~result.stopped

\* C12: the main stream is the first video stream whose codec is not mjpeg;
\* it alone receives the hevc_amf fragment, and once the stream loop has
\* completed every other video, audio and subtitle stream has been handled by
\* its secondary policy (copied, converted to aac, or dropped), in order.
C12_MainIsFirstNonMjpegVideo ==
  (probed /\ Streamed) =>
    /\ result.main_at # 0 => (HasMain /\ result.main_at = MainIdx)
    /\ (HasMain /\ (Completed \/ result.nproc > MainIdx)) => result.main_at = MainIdx
    /\ result.main_at = 0 => result.cmd_main_stream = <<>>
    /\ result.main_at # 0 =>
         /\ Len(MapToks(result.cmd_main_stream)) = 1
         /\ MapToks(result.cmd_main_stream)[1].t = "v"
         /\ MapToks(result.cmd_main_stream)[1].c = "hevc_amf"
    /\ \A k \in DOMAIN result.cmd_copy_stream : result.cmd_copy_stream[k].c # "hevc_amf"
    /\ Completed =>
         LET want == CopyExpected(1, Len(probe.streams))
         IN /\ Len(result.cmd_copy_stream) = Len(want)
            /\ \A k \in DOMAIN want :
                 /\ result.cmd_copy_stream[k].t = want[k].t
                 /\ result.cmd_copy_stream[k].c = want[k].c

\* a cover image first, then the main stream, then a second video stream
C12_Witness ==
  /\ probed /\ Streamed /\ Completed
  /\ Len(probe.streams) = 3
  /\ probe.streams[1].codec_name = "mjpeg"
  /\ probe.streams[3].codec_type = "video" /\ probe.streams[3].codec_name # "mjpeg"
  /\ result.main_at = 2 /\ result.is_valid

\* C13: the index in every '-map 0:<t>:N -c:<t>:N' token is the number of
\* streams of the same codec type that precede the stream in document order,
\* dropped and mjpeg streams included, each type counted on its own.
C13_InTypeIndex ==
  (probed /\ Streamed) =>
    /\ result.main_at # 0 =>
         MapToks(result.cmd_main_stream)[1].n = SameTypeBefore(result.main_at)
    /\ LET want == CopyExpected(1, result.nproc)
       IN \A k \in DOMAIN result.cmd_copy_stream :
            /\ k <= Len(want)
            /\ result.cmd_copy_stream[k].t = want[k].t
            /\ result.cmd_copy_stream[k].n = want[k].n

\* main video, a dropped yuv444p video, then a video copied with index 2
C13_Witness ==
  /\ probed /\ Streamed /\ Completed
  /\ Len(probe.streams) = 3
  /\ probe.streams[2].codec_type = "video" /\ probe.streams[2].pix_fmt # "yuv420p"
  /\ result.main_at = 1
  /\ result.cmd_copy_stream = <<MapTok("v", 2, "copy")>>

\* a stream that is neither video, audio nor subtitle
Unclassified(d) == d.codec_type \notin {"video", "audio", "subtitle"}

WithoutStream(i) ==
  [probe EXCEPT !.streams = SubSeq(@, 1, i - 1) \o SubSeq(@, i + 1, Len(@))]

SamePlan(r, q) ==
  /\ r.is_valid = q.is_valid /\ r.err = q.err
  /\ r.cmd_main_stream = q.cmd_main_stream
  /\ r.cmd_copy_stream = q.cmd_copy_stream

\* C14: a stream that is neither video, audio nor subtitle is only dropped:
\* the plan is the one of the document without that stream, whether or not
\* the stream carries duration information.
C14_UnclassifiedOnlyDropped ==
  (probed /\ Streamed) =>
    \A i \in DOMAIN probe.streams :
      Unclassified(probe.streams[i]) => SamePlan(result, check_hevc(WithoutStream(i)))

\* the first non-empty result of the chain DURATION-eng, DURATION, frame
\* count over average fps, container duration, for video stream d
ChainFirst(d) ==
  LET t == IF d.tags.has THEN d.tags.map ELSE <<>>
      eng == TagGet(t, "DURATION-eng", <<>>)
      tag == TagGet(t, "DURATION", <<>>)
      _frames == TagGet(t, "NUMBER_OF_FRAMES-eng", 0)
      _fps == FrmPerSec(d.avg_frame_rate)
  IN IF eng # <<>> THEN eng
     ELSE IF tag # <<>> THEN tag
     ELSE IF _frames # 0 /\ _fps # 0 THEN sec_hum((_frames * 1000) \div _fps)
     ELSE FormatDuration(probe).v

\* C18: for every video stream calc_duration returns the first non-empty
\* result of the chain, the container duration included when the stream has
\* a tag map that yields nothing.
C18_VideoDurationChain ==
  (probed /\ Streamed) =>
    \A i \in DOMAIN probe.streams :
      LET d == probe.streams[i]
      IN (d.codec_type = "video" /\ ~calc_duration(d, probe).raised)
           => calc_duration(d, probe).v = ChainFirst(d)

\* ------------------------------------------- claims about an encode session
IsProgressLine(line) == Search(_PROGRESS_RX, line) # 0

\* the seconds a progress line gives
ProgressSeconds(line) ==
  LET i == Search(_PROGRESS_RX, line)
  IN _seconds(Num2(line, i + 5), Num2(line, i + 8), Num2(line, i + 11))

ProgressAt == {i \in 1..Len(fed) : IsProgressLine(fed[i])}
DurationAt == {i \in 1..Len(fed) : get_duration(fed[i]) # NoVal}
FpsAt == {i \in 1..Len(fed) : get_fps(fed[i]) # NoVal}

\* a Duration line and an fps value came before the first progress line
SeenBeforeProgress ==
  /\ ProgressAt # {} /\ DurationAt # {} /\ FpsAt # {}
  /\ SetMin(DurationAt) < SetMin(ProgressAt)
  /\ SetMin(FpsAt) < SetMin(ProgressAt)

\* C4: in a session where a Duration line giving D seconds and an fps value F
\* were seen before the first progress line, the display exists with unit
\* frames and total D * round(F), and its current value is T * round(F) for
\* the T of the latest progress line.
C4_ProgressInFrames ==
  SeenBeforeProgress =>
    LET D == get_duration(fed[SetMin(DurationAt)])
        F == get_fps(fed[SetMin(FpsAt)])
        T == ProgressSeconds(fed[SetMax(ProgressAt)])
    IN /\ nt.pbar.created
       /\ nt.pbar.unit = " frames"
       /\ nt.pbar.total = D * F
       /\ nt.pbar.n = T * F

\* D = 330, F = 29.97, T = 60: current 1800 of 9900
C4_Witness ==
  /\ SeenBeforeProgress
  /\ get_duration(fed[SetMin(DurationAt)]) = 330
  /\ get_fps(fed[SetMin(FpsAt)]) = 30
  /\ ProgressSeconds(fed[SetMax(ProgressAt)]) = 60
  /\ nt.pbar.n = 1800 /\ nt.pbar.total = 9900

Consumed == SubSeq(script, 1, rpos)

\* how often the bytes b contain the prompt suffix
PromptCount(b) ==
  Cardinality({j \in Len(PromptSuffix)..Len(b) :
                 SubSeq(b, j - Len(PromptSuffix) + 1, j) = PromptSuffix})

JustPrompted == EndsWithPrompt(Consumed)

C9_NonZeroExitReported ==
  (args.use_tqdm /\ spc \in {"done", "raised"} /\ exited /\ excode # 0 /\ ~ki)
    => (spc = "done" /\ errlog # <<>>)

SourceAt == {i \in 1..Len(fed) : get_source(fed[i]).has}

\* C16: duration, source name and frame rate each hold what the first line
\* completed by CR or LF that matches the field's pattern gives, and nothing
\* before such a line; later matching lines change none of them.
C16_ExtractedOnce ==
  /\ nt.duration = IF DurationAt = {} THEN NoVal
                   ELSE get_duration(fed[SetMin(DurationAt)])
  /\ nt.source = IF SourceAt = {} THEN NoSource
                 ELSE get_source(fed[SetMin(SourceAt)])
  /\ nt.fps = IF FpsAt = {} THEN NoVal ELSE get_fps(fed[SetMin(FpsAt)])

\* a second source line and a second fps line, with other values, were fed
C16_Witness ==
  /\ Cardinality(SourceAt) = 2 /\ Cardinality(FpsAt) = 2
  /\ get_source(fed[SetMax(SourceAt)]) # nt.source
  /\ get_fps(fed[SetMax(FpsAt)]) # nt.fps
  /\ nt.fps = 30

\* C17: the display's position is the time of the latest progress line in
\* the unit of the display's label: seconds, or frames at the known rate.
C17_PositionInDisplayUnit ==
  (nt.pbar.created /\ ProgressAt # {}) =>
    LET T == ProgressSeconds(fed[SetMax(ProgressAt)])
    IN /\ nt.pbar.unit = " seconds" => nt.pbar.n = T
       /\ nt.pbar.unit = " frames" => nt.pbar.n = T * nt.fps

\* C19: a progress session that ends after the encoder has exited, and was
\* not interrupted, has read every byte the encoder wrote.
C19_NoByteLeftUnread ==
  (args.use_tqdm /\ spc \in {"done", "raised"} /\ exited /\ ~ki) => rpos = wpos

\* --------------------------------------------------- claims about the batch
\* C1: the source is deleted only when the output was verified (valid plan,
\* strictly smaller, duration within 2 seconds), and in every other outcome
\* the source is kept and the file is counted as an encode failure.
C1_DeleteOnlyVerifiedElseFailure ==
  last.file # 0 =>
    /\ last.deleted => last.verified
    /\ ~last.verified => (~last.deleted /\ last.counted = "convert_err")

\* C8: after an interrupted session no further file is probed and the
\* interrupted file's source is not deleted.
C8_InterruptStopsBatch ==
  last.interrupted => (~last.deleted /\ counts.checked = last.file)

\* C10: an invalid plan for the converted output is counted as an encode
\* failure and main does not raise.
C10_InvalidPlanNeverAborts ==
  (last.file # 0 /\ ~last.out_valid)
    => (last.counted = "convert_err" /\ dpc # "crashed")

\* C11: when the verification of an encode session ran while exit.txt was
\* present, main starts no further encode session.
C11_ExitSignalStopsBatch ==
  (last.file # 0 /\ last.exit_present) => dpc \notin {"encode", "verify"}

\* C15: a source is skipped as already converted only if its counterpart
\* probes as valid and its duration is within 2 seconds of the source's.
C15_SkipOnlyCloseCounterpart ==
  (seen.act = "skipped" /\ seen.why = "converted") => seen.conv = "close"

====
